---- MODULE Spec2Model ----
(***************************************************************************)
(* Model of the websocket position server in src/app.py: the registry      *)
(* `rooms`, the lazily created per-room locks, one ws_endpoint handler per *)
(* connection, and broadcast() with its failure pruning.                   *)
(*                                                                         *)
(* Scheduling is asyncio's: a handler runs without interruption from one   *)
(* await that can suspend to the next.  The awaits that can suspend are    *)
(* receive_text (line 102), the sends to the handler's own socket (lines   *)
(* 110 and 125, through send_json) and asyncio.wait (line 61).  Acquiring  *)
(* a free asyncio.Lock does not suspend, and no critical section contains  *)
(* an await, so each `async with get_lock(...)` block runs inside the step *)
(* that reaches it.  asyncio.wait is taken to accept coroutines and wrap   *)
(* them in tasks, as the code expects.                                     *)
(***************************************************************************)
EXTENDS Integers, Sequences, FiniteSets, TLC

\* ---------------------------------------------------------------- bounds
\* messages the server receives in one run, over all connections
MaxMsgs == 3
\* the same, in the runs of SpecRoom
MaxRoomMsgs == 5

\* ------------------------------------------------------------- constants
\* connections, numbered in the order the server accepts them
ConnOrder == <<"c1", "c2", "c3">>
Conns == {ConnOrder[i] : i \in DOMAIN ConnOrder}
\* the connections that open under Spec; the third opens in the runs with
\* three players only
Pair == {"c1", "c2"}
None == "<None>"

JoinDefaultCoord == 120
UpdateDefaultCoord == 0
DefaultName == "player"
DefaultShape == "square"
DefaultColor == "#00ff00"

\* JSON values of the coordinate fields: a number, a string, or absent
JNum(n) == [k |-> "num", n |-> n, s |-> ""]
JStr(s) == [k |-> "str", n |-> 0, s |-> s]
JAbsent == [k |-> "absent", n |-> 0, s |-> ""]

\* inputs the clients choose from
RoomIn == {"A", "B", None}
PidIn == {"p1", "p2", None}
NameIn == {None}
\* x and y as sent together: both parse, x does not parse, y does not parse
CoordIn == {<<JStr("7"), JAbsent>>, <<JStr("bad"), JAbsent>>, <<JStr("7"), JStr("bad")>>}

Msg(t, r, p, n, x, y) ==
    [type |-> t, room |-> r, player_id |-> p, name |-> n,
     shape |-> None, color |-> None, x |-> x, y |-> y]
JoinMsgs == {Msg("join", r, p, n, xy[1], xy[2]) : r \in RoomIn, p \in PidIn, n \in NameIn,
                                                xy \in CoordIn}
UpdateMsgs == {Msg("update", None, None, None, xy[1], xy[2]) : xy \in CoordIn}
OtherMsgs == {Msg("ping", None, None, None, JAbsent, JAbsent)}
NoMsg == Msg(None, None, None, None, JAbsent, JAbsent)

\* --------------------------------------------------------------- helpers
\* dict.get(key, default) on a message field
Get(m, f, default) == IF m[f] = None THEN default ELSE m[f]
GetCoord(m, f, default) == IF m[f] = JAbsent THEN JNum(default) ELSE m[f]

\* Python truthiness of an Optional[str]
Truthy(s) == s # None /\ s # ""

\* float(v): a number converts to itself, a string is parsed, anything that
\* is not a numeral raises ValueError (ok = FALSE)
ParseDigits(s) ==
    CASE s = "7" -> [ok |-> TRUE, v |-> 7]
      [] s = "8" -> [ok |-> TRUE, v |-> 8]
      [] s = "120" -> [ok |-> TRUE, v |-> 120]
      [] OTHER -> [ok |-> FALSE, v |-> 0]
float(j) ==
    CASE j.k = "num" -> [ok |-> TRUE, v |-> j.n]
      [] j.k = "str" -> ParseDigits(j.s)
      [] OTHER -> [ok |-> FALSE, v |-> 0]

Player(pid, name, shape, color, x, y, ws) ==
    [player_id |-> pid, name |-> name, shape |-> shape, color |-> color,
     x |-> x, y |-> y, websocket |-> ws]

EmptyDict == [p \in {} |-> None]
\* rooms.get(room_id, {})
RoomGet(R, rid) == IF rid \in DOMAIN R THEN R[rid] ELSE EmptyDict
\* d[k] = v on a dict modelled as a function
DictPut(d, k, v) == [q \in DOMAIN d \cup {k} |-> IF q = k THEN v ELSE d[q]]
\* d.pop(k, None) for every k of ks
DictPop(d, ks) == [q \in DOMAIN d \ ks |-> d[q]]

\* rooms.setdefault(room_id, {})
SetDefault(R, rid) ==
    IF rid \in DOMAIN R THEN R ELSE [r \in DOMAIN R \cup {rid} |-> IF r = rid THEN EmptyDict ELSE R[r]]

VARIABLES rooms, room_locks, pc, room_id, player_id, msg, out, bc,
          alive, nmsgs, ev
vars == <<rooms, room_locks, pc, room_id, player_id, msg, out, bc,
          alive, nmsgs, ev>>

\* ------------------------------------------------------------- payloads
PlayerView(pid, name, shape, color, x, y) ==
    [player_id |-> pid, name |-> name, shape |-> shape, color |-> color,
     x |-> x, y |-> y]
NoPlayer == PlayerView(None, None, None, None, JAbsent, JAbsent)
Payload(t, r, ps, you, pl, pid, m) ==
    [type |-> t, room |-> r, players |-> ps, you |-> you, player |-> pl,
     player_id |-> pid, message |-> m]
NoPayload == Payload(None, None, EmptyDict, None, NoPlayer, None, None)
ErrorPayload ==
    Payload("error", None, EmptyDict, None, NoPlayer, None, "room and player_id required")
LeavePayload(pid) == Payload("leave", None, EmptyDict, None, NoPlayer, pid, None)
\* the update announcing a join carries the raw x and y of the message
JoinPayload(m, pid) ==
    Payload("update", None, EmptyDict, None,
            PlayerView(pid, Get(m, "name", DefaultName), Get(m, "shape", DefaultShape),
                       Get(m, "color", DefaultColor),
                       GetCoord(m, "x", JoinDefaultCoord), GetCoord(m, "y", JoinDefaultCoord)),
            None, None)
UpdatePayload(pid, x, y) ==
    Payload("update", None, EmptyDict, None,
            PlayerView(pid, None, None, None, JNum(x), JNum(y)), None, None)
\* send_state: the snapshot is built when send_state is called
StatePayload(R, rid, your_id) ==
    LET ps == RoomGet(R, rid) IN
    Payload("state", rid,
            [q \in DOMAIN ps |-> PlayerView(q, ps[q].name, ps[q].shape, ps[q].color,
                                            JNum(ps[q].x), JNum(ps[q].y))],
            your_id, NoPlayer, None, None)

\* ------------------------------------------------------------ broadcast
NoBc == [room |-> None, payload |-> NoPayload, skip |-> None, kind |-> "none",
         tasks |-> EmptyDict]
\* broadcast(), lines 51-56: one send task per member of the room at call
\* time, except the member whose id is `skip`
Recipients(R, rid, skip) ==
    {q \in DOMAIN RoomGet(R, rid) : ~(Truthy(skip) /\ q = skip)}
BroadcastTasks(R, rid, skip) ==
    [q \in Recipients(R, rid, skip) |-> [ws |-> R[rid][q].websocket, st |-> "pending"]]
StartBroadcast(R, rid, payload, skip, kind) ==
    [room |-> rid, payload |-> payload, skip |-> skip, kind |-> kind,
     tasks |-> BroadcastTasks(R, rid, skip)]
\* lines 58-59: with no recipient broadcast returns without suspending
Suspends(b) == DOMAIN b.tasks # {}

\* Prune with the membership test of line 74 inverted
PruneInverted(R, rid, failures) ==
    IF rid \in DOMAIN R /\ failures # {}
    THEN [R EXCEPT ![rid] = DictPop(R[rid], {q \in DOMAIN R[rid] : R[rid][q].websocket \notin failures})]
    ELSE R
\* broadcast(), lines 72-76: the records of the room whose websocket is in
\* `failures` are popped; the room entry itself is left in place
Prune(R, rid, failures) ==
    IF rid \in DOMAIN R
    THEN [R EXCEPT ![rid] = DictPop(R[rid], {q \in DOMAIN R[rid] : R[rid][q].websocket \in failures})]
    ELSE R

\* ------------------------------------------------------------- cleanup
\* Leave popping the player id from every room
LeaveAnyRoom(R, rid, pid) ==
    IF rid \in DOMAIN R /\ DOMAIN R[rid] # {} /\ pid \in DOMAIN R[rid]
    THEN LET R1 == [r \in DOMAIN R |-> DictPop(R[r], {pid})] IN
         [r \in {r1 \in DOMAIN R1 : DOMAIN R1[r1] # {}} |-> R1[r]]
    ELSE R
\* the finally block, lines 157-165, run on registry R with the handler's
\* locals rid and pid: the result is the registry, the locks, the leave
\* broadcast and the mutations it made
Leave(R, rid, pid) ==
    IF rid \in DOMAIN R /\ DOMAIN R[rid] # {} /\ pid \in DOMAIN R[rid]
    THEN LET players == DictPop(R[rid], {pid}) IN
         IF DOMAIN players = {}
         THEN [r \in DOMAIN R \ {rid} |-> R[r]]
         ELSE [R EXCEPT ![rid] = players]
    ELSE R
Finally(R, L, rid, pid) ==
    IF Truthy(rid) /\ Truthy(pid)
    THEN LET R2 == Leave(R, rid, pid)
             b == StartBroadcast(R2, rid, LeavePayload(pid), None, "leave") IN
         [rooms |-> R2, locks |-> L \cup {rid},
          bc |-> IF Suspends(b) THEN b ELSE NoBc,
          pc |-> IF Suspends(b) THEN "bcast" ELSE "done",
          muts |-> IF R2 # R THEN {[room |-> rid, held |-> TRUE]} ELSE {}]
    ELSE [rooms |-> R, locks |-> L, bc |-> NoBc, pc |-> "done", muts |-> {}]

\* the last step taken: the operation, the handler that took it, the message
\* it received, the mutations of the registry it made (each with whether the
\* handler held the room's lock while making it), the messages that reached a
\* client in it, and the sockets whose sends failed in a broadcast it ended
Sent(w, p) == {[to |-> w, payload |-> p]}
EventF(op, c, m, muts, sent, failed) ==
    [op |-> op, conn |-> c, msg |-> m, muts |-> muts, sent |-> sent, failed |-> failed]
Event(op, c, muts) == EventF(op, c, NoMsg, muts, {}, {})
EventR(c, m, muts) == EventF("recv", c, m, muts, {}, {})
EventS(op, c, sent) == EventF(op, c, NoMsg, {}, sent, {})

\* the state after the module has been loaded, lines 33-34, no connection
\* accepted yet; n is the number of messages the run will receive
Start(n) ==
    /\ rooms = [r \in {} |-> EmptyDict]
    /\ room_locks = {}
    /\ pc = [c \in Conns |-> "idle"]
    /\ room_id = [c \in Conns |-> None]
    /\ player_id = [c \in Conns |-> None]
    /\ msg = [c \in Conns |-> NoMsg]
    /\ out = [c \in Conns |-> NoPayload]
    /\ bc = [c \in Conns |-> NoBc]
    /\ alive = [c \in Conns |-> TRUE]
    /\ nmsgs = n
    /\ ev = Event("init", None, {})

Init == Start(MaxMsgs)

\* the handler leaves the try block with an exception (or a disconnect)
\* and runs the finally block before it suspends again
Exit(c, op, m, R, L, rid, pid, muts) ==
    LET f == Finally(R, L, rid, pid) IN
    /\ rooms' = f.rooms
    /\ room_locks' = f.locks
    /\ pc' = [pc EXCEPT ![c] = f.pc]
    /\ bc' = [bc EXCEPT ![c] = f.bc]
    /\ out' = [out EXCEPT ![c] = NoPayload]
    /\ alive' = IF f.pc = "done" THEN [alive EXCEPT ![c] = FALSE] ELSE alive
    /\ ev' = EventF(op, c, m, muts \cup f.muts, {}, {})

\* the handler goes back to line 102
Loop(c) ==
    /\ pc' = [pc EXCEPT ![c] = "recv"]
    /\ bc' = [bc EXCEPT ![c] = NoBc]
    /\ out' = [out EXCEPT ![c] = NoPayload]

\* the server accepts connection c, line 97
Accept(c) ==
    /\ pc[c] = "idle"
    /\ \A i, j \in DOMAIN ConnOrder : (i < j /\ ConnOrder[j] = c) => pc[ConnOrder[i]] # "idle"
    /\ pc' = [pc EXCEPT ![c] = "recv"]
    /\ ev' = Event("accept", c, {})
    /\ UNCHANGED <<rooms, room_locks, room_id, player_id, msg, out, bc, alive, nmsgs>>

\* the client's side of connection c goes away
Drop(c) ==
    /\ alive[c]
    /\ pc[c] \notin {"idle", "done"}
    /\ alive' = [alive EXCEPT ![c] = FALSE]
    /\ ev' = Event("drop", c, {})
    /\ UNCHANGED <<rooms, room_locks, pc, room_id, player_id, msg, out, bc, nmsgs>>

\* receive_text raises WebSocketDisconnect, lines 102, 155-165
RecvDisconnect(c) ==
    /\ pc[c] = "recv"
    /\ ~alive[c]
    /\ Exit(c, "disconnect", NoMsg, rooms, room_locks, room_id[c], player_id[c], {})
    /\ UNCHANGED <<room_id, player_id, msg, nmsgs>>

Receives(c, m) ==
    /\ pc[c] = "recv"
    /\ alive[c]
    /\ nmsgs > 0
    /\ nmsgs' = nmsgs - 1

\* RecvJoinRejected with the room entry created before the check of line 109
RecvJoinRejectedLate(c, m) ==
    /\ Receives(c, m)
    /\ m.type = "join"
    /\ ~(Truthy(m.room) /\ Truthy(m.player_id))
    /\ room_id' = [room_id EXCEPT ![c] = m.room]
    /\ player_id' = [player_id EXCEPT ![c] = m.player_id]
    /\ rooms' = SetDefault(rooms, m.room)
    /\ pc' = [pc EXCEPT ![c] = "send_error"]
    /\ out' = [out EXCEPT ![c] = ErrorPayload]
    /\ ev' = EventR(c, m, {})
    /\ UNCHANGED <<room_locks, msg, bc, alive>>
\* a join without room or player_id, lines 106-111
RecvJoinRejected(c, m) ==
    /\ Receives(c, m)
    /\ m.type = "join"
    /\ ~(Truthy(m.room) /\ Truthy(m.player_id))
    /\ room_id' = [room_id EXCEPT ![c] = m.room]
    /\ player_id' = [player_id EXCEPT ![c] = m.player_id]
    /\ pc' = [pc EXCEPT ![c] = "send_error"]
    /\ out' = [out EXCEPT ![c] = ErrorPayload]
    /\ ev' = EventR(c, m, {})
    /\ UNCHANGED <<rooms, room_locks, msg, bc, alive>>

\* Insert keeping the record a player id already has
InsertKeep(R, rid, pid, m, ws) ==
    LET R1 == SetDefault(R, rid) IN
    IF pid \in DOMAIN R1[rid] THEN R1
    ELSE [R1 EXCEPT ![rid] = DictPut(R1[rid], pid,
        Player(pid, Get(m, "name", DefaultName), Get(m, "shape", DefaultShape),
               Get(m, "color", DefaultColor),
               float(GetCoord(m, "x", JoinDefaultCoord)).v,
               float(GetCoord(m, "y", JoinDefaultCoord)).v, ws))]
\* lines 114-123
Insert(R, rid, pid, m, ws) ==
    LET R1 == SetDefault(R, rid) IN
    [R1 EXCEPT ![rid] = DictPut(R1[rid], pid,
        Player(pid, Get(m, "name", DefaultName), Get(m, "shape", DefaultShape),
               Get(m, "color", DefaultColor),
               float(GetCoord(m, "x", JoinDefaultCoord)).v,
               float(GetCoord(m, "y", JoinDefaultCoord)).v, ws))]

\* a join with room and player_id, lines 106-125, up to the await of the
\* send inside send_state
RecvJoin(c, m) ==
    /\ Receives(c, m)
    /\ m.type = "join"
    /\ Truthy(m.room) /\ Truthy(m.player_id)
    /\ float(GetCoord(m, "x", JoinDefaultCoord)).ok
    /\ float(GetCoord(m, "y", JoinDefaultCoord)).ok
    /\ room_id' = [room_id EXCEPT ![c] = m.room]
    /\ player_id' = [player_id EXCEPT ![c] = m.player_id]
    /\ msg' = [msg EXCEPT ![c] = m]
    /\ rooms' = Insert(rooms, m.room, m.player_id, m, c)
    /\ room_locks' = room_locks \cup {m.room}
    /\ pc' = [pc EXCEPT ![c] = "send_state"]
    /\ out' = [out EXCEPT ![c] = StatePayload(rooms', m.room, m.player_id)]
    /\ ev' = EventR(c, m, {[room |-> m.room, held |-> TRUE]})
    /\ UNCHANGED <<bc, alive>>

\* a join whose x or y makes float() raise: setdefault at line 114 has run,
\* the exception leaves the lock and the loop, and the finally block runs
\* with the room_id and player_id of this message
RecvJoinMalformed(c, m) ==
    /\ Receives(c, m)
    /\ m.type = "join"
    /\ Truthy(m.room) /\ Truthy(m.player_id)
    /\ ~(/\ float(GetCoord(m, "x", JoinDefaultCoord)).ok
         /\ float(GetCoord(m, "y", JoinDefaultCoord)).ok)
    /\ room_id' = [room_id EXCEPT ![c] = m.room]
    /\ player_id' = [player_id EXCEPT ![c] = m.player_id]
    /\ Exit(c, "recv", m, SetDefault(rooms, m.room), room_locks \cup {m.room},
            m.room, m.player_id,
            IF m.room \in DOMAIN rooms THEN {} ELSE {[room |-> m.room, held |-> TRUE]})
    /\ UNCHANGED <<msg>>

Joined(c) == Truthy(room_id[c]) /\ Truthy(player_id[c])

\* Move writing the coordinates into every record of the room
MoveAll(R, rid, pid, x, y) ==
    IF pid \in DOMAIN RoomGet(R, rid)
    THEN [R EXCEPT ![rid] = [q \in DOMAIN R[rid] |-> [R[rid][q] EXCEPT !.x = x, !.y = y]]]
    ELSE R
\* lines 146-149
Move(R, rid, pid, x, y) ==
    IF pid \in DOMAIN RoomGet(R, rid)
    THEN [R EXCEPT ![rid][pid].x = x, ![rid][pid].y = y]
    ELSE R

\* an update on a joined connection, lines 142-154, up to asyncio.wait
RecvUpdate(c, m) ==
    /\ Receives(c, m)
    /\ m.type = "update"
    /\ Joined(c)
    /\ float(GetCoord(m, "x", UpdateDefaultCoord)).ok
    /\ float(GetCoord(m, "y", UpdateDefaultCoord)).ok
    /\ LET x == float(GetCoord(m, "x", UpdateDefaultCoord)).v
           y == float(GetCoord(m, "y", UpdateDefaultCoord)).v
           rid == room_id[c]
           pid == player_id[c]
           R1 == Move(rooms, rid, pid, x, y)
           b == StartBroadcast(R1, rid, UpdatePayload(pid, x, y), pid, "update") IN
       /\ rooms' = R1
       /\ room_locks' = room_locks \cup {rid}
       /\ pc' = [pc EXCEPT ![c] = IF Suspends(b) THEN "bcast" ELSE "recv"]
       /\ bc' = [bc EXCEPT ![c] = IF Suspends(b) THEN b ELSE NoBc]
       /\ ev' = EventR(c, m,
                      IF pid \in DOMAIN RoomGet(rooms, rid)
                      THEN {[room |-> rid, held |-> TRUE]} ELSE {})
    /\ UNCHANGED <<room_id, player_id, msg, out, alive>>

\* an update on a joined connection whose x or y makes float() raise at
\* lines 143-144
RecvUpdateMalformed(c, m) ==
    /\ Receives(c, m)
    /\ m.type = "update"
    /\ Joined(c)
    /\ ~(/\ float(GetCoord(m, "x", UpdateDefaultCoord)).ok
         /\ float(GetCoord(m, "y", UpdateDefaultCoord)).ok)
    /\ Exit(c, "recv", m, rooms, room_locks, room_id[c], player_id[c], {})
    /\ UNCHANGED <<room_id, player_id, msg>>

\* RecvOther with an unhandled message raising instead of being skipped
RecvOtherRaises(c, m) ==
    /\ Receives(c, m)
    /\ m.type # "join"
    /\ ~(m.type = "update" /\ Joined(c))
    /\ Exit(c, "recv", m, rooms, room_locks, room_id[c], player_id[c], {})
    /\ UNCHANGED <<room_id, player_id, msg>>
\* any other message matches neither branch of lines 106 and 142
RecvOther(c, m) ==
    /\ Receives(c, m)
    /\ m.type # "join"
    /\ ~(m.type = "update" /\ Joined(c))
    /\ ev' = EventR(c, m, {})
    /\ UNCHANGED <<rooms, room_locks, pc, room_id, player_id, msg, out, bc, alive>>

\* the error reply has been sent, lines 110-111
SendErrorDone(c) ==
    /\ pc[c] = "send_error"
    /\ alive[c]
    /\ Loop(c)
    /\ ev' = EventS("error_sent", c, Sent(c, out[c]))
    /\ UNCHANGED <<rooms, room_locks, room_id, player_id, msg, alive, nmsgs>>

\* the state reply has been sent; broadcast() runs up to asyncio.wait,
\* lines 125-140 and 51-61
SendStateDone(c) ==
    /\ pc[c] = "send_state"
    /\ alive[c]
    /\ LET b == StartBroadcast(rooms, room_id[c], JoinPayload(msg[c], player_id[c]),
                               player_id[c], "join") IN
       /\ pc' = [pc EXCEPT ![c] = IF Suspends(b) THEN "bcast" ELSE "recv"]
       /\ bc' = [bc EXCEPT ![c] = IF Suspends(b) THEN b ELSE NoBc]
    /\ out' = [out EXCEPT ![c] = NoPayload]
    /\ msg' = [msg EXCEPT ![c] = NoMsg]
    /\ ev' = EventS("state_sent", c, Sent(c, out[c]))
    /\ UNCHANGED <<rooms, room_locks, room_id, player_id, alive, nmsgs>>

\* a send to the handler's own socket raises
SendFail(c) ==
    /\ pc[c] \in {"send_error", "send_state"}
    /\ ~alive[c]
    /\ Exit(c, "send_failed", NoMsg, rooms, room_locks, room_id[c], player_id[c], {})
    /\ msg' = [msg EXCEPT ![c] = NoMsg]
    /\ UNCHANGED <<room_id, player_id, nmsgs>>

\* Deliver with a send that reaches the client and leaves its task pending
DeliverRepeated(c, q) ==
    /\ pc[c] = "bcast"
    /\ q \in DOMAIN bc[c].tasks
    /\ bc[c].tasks[q].st = "pending"
    /\ LET w == bc[c].tasks[q].ws IN
       IF alive[w]
       THEN /\ bc' = bc
            /\ ev' = EventS("deliver", c, Sent(w, bc[c].payload))
       ELSE /\ bc' = [bc EXCEPT ![c].tasks[q].st = "fail"]
            /\ ev' = Event("deliver_failed", c, {})
    /\ UNCHANGED <<rooms, room_locks, pc, room_id, player_id, msg, out, alive, nmsgs>>
\* one send task of c's broadcast completes: it delivers the payload, or
\* raises because the recipient's connection is gone
Deliver(c, q) ==
    /\ pc[c] = "bcast"
    /\ q \in DOMAIN bc[c].tasks
    /\ bc[c].tasks[q].st = "pending"
    /\ LET w == bc[c].tasks[q].ws IN
       IF alive[w]
       THEN /\ bc' = [bc EXCEPT ![c].tasks[q].st = "ok"]
            /\ ev' = EventS("deliver", c, Sent(w, bc[c].payload))
       ELSE /\ bc' = [bc EXCEPT ![c].tasks[q].st = "fail"]
            /\ ev' = Event("deliver_failed", c, {})
    /\ UNCHANGED <<rooms, room_locks, pc, room_id, player_id, msg, out, alive, nmsgs>>

Failed(b) == {b.tasks[q].ws : q \in {p \in DOMAIN b.tasks : b.tasks[p].st = "fail"}}
StaleIds(R, rid, failures) ==
    {q \in DOMAIN RoomGet(R, rid) : R[rid][q].websocket \in failures}

\* BroadcastDone with asyncio.wait returning at the first failed task
BroadcastDoneFirstFailure(c, ident) ==
    /\ pc[c] = "bcast"
    /\ \/ \A q \in DOMAIN bc[c].tasks : bc[c].tasks[q].st # "pending"
       \/ \E q \in DOMAIN bc[c].tasks : bc[c].tasks[q].st = "fail"
    /\ ident \subseteq Failed(bc[c])
    /\ rooms' = Prune(rooms, bc[c].room, ident)
    /\ ev' = EventF("broadcast_done", c, NoMsg,
                    IF StaleIds(rooms, bc[c].room, ident) # {}
                    THEN {[room |-> bc[c].room, held |-> FALSE]} ELSE {},
                    {}, Failed(bc[c]))
    /\ IF bc[c].kind = "leave"
       THEN /\ pc' = [pc EXCEPT ![c] = "done"]
            /\ alive' = [alive EXCEPT ![c] = FALSE]
       ELSE /\ pc' = [pc EXCEPT ![c] = "recv"]
            /\ alive' = alive
    /\ bc' = [bc EXCEPT ![c] = NoBc]
    /\ UNCHANGED <<room_locks, room_id, player_id, msg, out, nmsgs>>
\* asyncio.wait returns once every task is done, lines 61-76.  Line 67
\* reads the failed task's `ws` out of the coroutine's frame, best effort:
\* whether the frame of a coroutine that has raised can still be read is up
\* to the runtime, so each failure is identified (ws) or not (None); ident is
\* the set of the sockets identified.
BroadcastDone(c, ident) ==
    /\ pc[c] = "bcast"
    /\ \A q \in DOMAIN bc[c].tasks : bc[c].tasks[q].st # "pending"
    /\ ident \subseteq Failed(bc[c])
    /\ rooms' = Prune(rooms, bc[c].room, ident)
    /\ ev' = EventF("broadcast_done", c, NoMsg,
                    IF StaleIds(rooms, bc[c].room, ident) # {}
                    THEN {[room |-> bc[c].room, held |-> FALSE]} ELSE {},
                    {}, Failed(bc[c]))
    /\ IF bc[c].kind = "leave"
       THEN /\ pc' = [pc EXCEPT ![c] = "done"]
            /\ alive' = [alive EXCEPT ![c] = FALSE]
       ELSE /\ pc' = [pc EXCEPT ![c] = "recv"]
            /\ alive' = alive
    /\ bc' = [bc EXCEPT ![c] = NoBc]
    /\ UNCHANGED <<room_locks, room_id, player_id, msg, out, nmsgs>>

Next ==
    \/ \E c \in Pair : Accept(c)
    \/ \E c \in Pair : Drop(c)
    \/ \E c \in Pair : RecvDisconnect(c)
    \/ \E c \in Pair, m \in JoinMsgs : RecvJoinRejected(c, m)
    \/ \E c \in Pair, m \in JoinMsgs : RecvJoin(c, m)
    \/ \E c \in Pair, m \in JoinMsgs : RecvJoinMalformed(c, m)
    \/ \E c \in Pair, m \in UpdateMsgs : RecvUpdate(c, m)
    \/ \E c \in Pair, m \in UpdateMsgs : RecvUpdateMalformed(c, m)
    \/ \E c \in Pair, m \in UpdateMsgs \cup OtherMsgs : RecvOther(c, m)
    \/ \E c \in Pair : SendErrorDone(c)
    \/ \E c \in Pair : SendStateDone(c)
    \/ \E c \in Pair : SendFail(c)
    \/ \E c \in Pair, q \in PidIn : Deliver(c, q)
    \/ \E c \in Pair, ident \in SUBSET Pair : BroadcastDone(c, ident)

Spec == Init /\ [][Next]_vars


\* ------------------------------------------------------- joining again
\* The runs in which two connections join room "A", with two values for a
\* name and for a pair of coordinates.
RejoinNameIn == {None, "ann"}
RejoinCoordIn == {<<JStr("7"), JAbsent>>, <<JStr("8"), JStr("8")>>}
RejoinMsgs ==
    {Msg("join", "A", p, n, xy[1], xy[2]) : p \in PidIn \ {None}, n \in RejoinNameIn,
                                           xy \in RejoinCoordIn}
NextRejoin ==
    \/ \E c \in Pair : Accept(c)
    \/ \E c \in Pair : Drop(c)
    \/ \E c \in Pair : RecvDisconnect(c)
    \/ \E c \in Pair, m \in RejoinMsgs : RecvJoin(c, m)
    \/ \E c \in Pair : SendStateDone(c)
    \/ \E c \in Pair : SendFail(c)
    \/ \E c \in Pair, q \in PidIn : Deliver(c, q)
    \/ \E c \in Pair, ident \in SUBSET Pair : BroadcastDone(c, ident)

SpecRejoin == Init /\ [][NextRejoin]_vars

\* ------------------------------------------------- one room, three players
\* The runs in which three connections share room "A", each under its own
\* player id, and every message is well formed: c1 and c2 join and move,
\* c2 may lose its connection, c3 joins, listens and stays connected.
RoomPids == {"p1", "p2", "p3"}
RoomJoinMsgs(c) ==
    CASE c = "c1" -> {Msg("join", "A", "p1", None, JStr("7"), JAbsent)}
      [] c = "c2" -> {Msg("join", "A", "p2", None, JStr("8"), JStr("8"))}
      [] OTHER -> {Msg("join", "A", "p3", None, JAbsent, JStr("7"))}
RoomUpdateMsgs(c) ==
    CASE c = "c1" -> {Msg("update", None, None, None, JStr("8"), JAbsent),
                      Msg("update", None, None, None, JStr("7"), JStr("8"))}
      [] c = "c2" -> {Msg("update", None, None, None, JStr("7"), JStr("7"))}
      [] OTHER -> {}

InitRoom == Start(MaxRoomMsgs)

NextRoom ==
    \/ \E c \in Conns : Accept(c)
    \/ Drop("c2")
    \/ RecvDisconnect("c2")
    \/ \E c \in Conns : \E m \in RoomJoinMsgs(c) : RecvJoin(c, m)
    \/ \E c \in Conns : \E m \in RoomUpdateMsgs(c) : RecvUpdate(c, m)
    \/ \E c \in Conns : SendStateDone(c)
    \/ \E c \in Conns : SendFail(c)
    \/ \E c \in Conns, q \in RoomPids : Deliver(c, q)
    \/ \E c \in Conns, ident \in SUBSET Conns : BroadcastDone(c, ident)

SpecRoom == InitRoom /\ [][NextRoom]_vars

\* ------------------------------------------------ a player id taken over
\* The runs in which c1 and c2 both join room "A" as "p1" and c3 joins it
\* as "p3"; c1 and c2 move, c2 may lose its connection.
TakeoverJoinMsgs(c) ==
    IF c = "c3" THEN {Msg("join", "A", "p3", None, JAbsent, JStr("7"))}
    ELSE {Msg("join", "A", "p1", None, JStr("7"), JAbsent)}
TakeoverUpdateMsgs(c) ==
    IF c = "c3" THEN {}
    ELSE {Msg("update", None, None, None, JStr("8"), JStr("8"))}
NextTakeover ==
    \/ \E c \in Conns : Accept(c)
    \/ Drop("c2")
    \/ RecvDisconnect("c2")
    \/ \E c \in Conns : \E m \in TakeoverJoinMsgs(c) : RecvJoin(c, m)
    \/ \E c \in Conns : \E m \in TakeoverUpdateMsgs(c) : RecvUpdate(c, m)
    \/ \E c \in Conns : SendStateDone(c)
    \/ \E c \in Conns : SendFail(c)
    \/ \E c \in Conns, q \in RoomPids : Deliver(c, q)
    \/ \E c \in Conns, ident \in SUBSET Conns : BroadcastDone(c, ident)

SpecTakeover == InitRoom /\ [][NextTakeover]_vars

\* ------------------------------------------------------------- scheduling
\* The event loop runs every handler that can take a step: a handler whose
\* send, receive or asyncio.wait has completed is resumed.
Resumes(c) ==
    \/ RecvDisconnect(c)
    \/ SendStateDone(c)
    \/ SendFail(c)
    \/ \E ident \in SUBSET Conns : BroadcastDone(c, ident)
\* Every broadcast that has a pending send sees one of its sends complete,
\* successfully or not.
Proceeds(c) == Resumes(c) \/ \E q \in RoomPids : Deliver(c, q)
SpecFair ==
    /\ Init /\ [][NextRoom]_vars
    /\ \A c \in Conns : WF_vars(Proceeds(c))

\* The client of Stalled stops reading: while it is connected a send to its
\* socket neither completes nor fails.  Every other send completes.
Stalled == "c2"
DeliverOther(c, q) ==
    /\ Deliver(c, q)
    /\ bc[c].tasks[q].ws # Stalled \/ ~alive[Stalled]
SpecStall ==
    /\ Init /\ [][NextRoom]_vars
    /\ \A c \in Conns : WF_vars(Resumes(c))
    /\ \A c \in Conns, q \in RoomPids : WF_vars(DeliverOther(c, q))

\* ------------------------------------------------------------ properties
\* the records of the registry that hold connection c as their websocket
RecordsOf(R, c) ==
    UNION {{<<r, q>> : q \in {p \in DOMAIN R[r] : R[r][p].websocket = c}} : r \in DOMAIN R}
RoomsOf(R, c) == {rq[1] : rq \in RecordsOf(R, c)}
\* handler c received a message in the step just taken
Received(c) == ev'.op = "recv" /\ ev'.conn = c
\* handler c's broadcast returned in the step just taken
Returned(c) == pc[c] = "bcast" /\ pc'[c] # "bcast"
\* the coordinates of the message make float() raise, with the defaults
\* the branch that handles it applies
Malformed(m) ==
    \/ /\ m.type = "join"
       /\ ~(/\ float(GetCoord(m, "x", JoinDefaultCoord)).ok
            /\ float(GetCoord(m, "y", JoinDefaultCoord)).ok)
    \/ /\ m.type = "update"
       /\ ~(/\ float(GetCoord(m, "x", UpdateDefaultCoord)).ok
            /\ float(GetCoord(m, "y", UpdateDefaultCoord)).ok)
\* room and player_id of a join are both given and not empty
Named(m) == Truthy(m.room) /\ Truthy(m.player_id)
\* the no-room state of a handler
NoRoom(c) == ~(Truthy(room_id[c]) /\ Truthy(player_id[c]))
\* Leave of every player of pids from room rid
RECURSIVE LeaveAll(_, _, _)
LeaveAll(R, rid, pids) ==
    IF pids = {} THEN R
    ELSE LET q == CHOOSE q \in pids : TRUE IN LeaveAll(Leave(R, rid, q), rid, pids \ {q})

\* C1: no room_id of the registry maps to an empty member set.
C1_NoEmptyRoom == \A r \in DOMAIN rooms : DOMAIN rooms[r] # {}

\* C2: once the handler of a connection has finished, no record created by
\* that connection remains in any room.
C2_CleanupOnClose == \A c \in Conns : pc[c] = "done" => RecordsOf(rooms, c) = {}

\* C3: the broadcast of an update sent by a joined player is never
\* addressed to the sender's own connection.
C3_NoSelfEcho ==
    \A c \in Conns : (pc[c] = "bcast" /\ bc[c].kind = "update")
        => \A q \in DOMAIN bc[c].tasks : bc[c].tasks[q].ws # c

C5_FailureIsLeave ==
    [][\A c \in Conns : Returned(c) =>
         rooms' = LeaveAll(rooms, bc[c].room, StaleIds(rooms, bc[c].room, Failed(bc[c])))]_vars

\* C6: when a delivery to another recipient fails in a broadcast triggered
\* by S's join or update, broadcast returns to S's handler: S goes back to
\* receiving with its connection as it was, S's records stay in the room as
\* they were, and no other room changes.
C6_FailureNotPropagated ==
    [][\A c \in Conns :
         (/\ Returned(c)
          /\ bc[c].kind \in {"join", "update"}
          /\ Failed(bc[c]) # {}
          /\ c \notin Failed(bc[c]))
         => /\ pc'[c] = "recv"
            /\ alive'[c] = alive[c]
            /\ room_id'[c] = room_id[c] /\ player_id'[c] = player_id[c]
            /\ RecordsOf(rooms', c) = RecordsOf(rooms, c)
            /\ \A rq \in RecordsOf(rooms, c) : rooms'[rq[1]][rq[2]] = rooms[rq[1]][rq[2]]
            /\ DOMAIN rooms' = DOMAIN rooms
            /\ \A r \in DOMAIN rooms : r # bc[c].room => rooms'[r] = rooms[r]]_vars
C6_Witness ==
    /\ ev.op = "broadcast_done"
    /\ ev.failed # {}
    /\ ev.conn \notin ev.failed
    /\ pc[ev.conn] = "recv"
    /\ RecordsOf(rooms, ev.conn) # {}

\* C7: a join or update whose x or y does not parse leaves the registry as
\* it was and is answered with an error to the sender.
C7_MalformedRejected ==
    [][\A c \in Conns :
         (/\ Received(c)
          /\ Malformed(ev'.msg)
          /\ \/ ev'.msg.type = "join" /\ Named(ev'.msg)
             \/ ev'.msg.type = "update" /\ ~NoRoom(c))
         => /\ rooms' = rooms
            /\ pc'[c] = "send_error"]_vars

\* C8: a join without room or player_id is answered with exactly one error
\* message to the sender, the handler goes back to receiving, the registry
\* is unchanged and nothing is broadcast.
C8_JoinRejected ==
    [][\A c \in Conns :
         /\ (Received(c) /\ ev'.msg.type = "join" /\ ~Named(ev'.msg))
            => /\ pc'[c] = "send_error"
               /\ out'[c] = ErrorPayload
               /\ rooms' = rooms
               /\ bc' = bc
               /\ ev'.sent = {}
         /\ (pc[c] = "send_error" /\ pc'[c] # "send_error" /\ alive[c])
            => /\ pc'[c] = "recv"
               /\ ev'.sent = Sent(c, ErrorPayload)
               /\ rooms' = rooms
               /\ bc' = bc
               /\ alive'[c]]_vars
C8_Witness ==
    \E c \in Conns :
        /\ ev.op = "error_sent" /\ ev.conn = c
        /\ ev.sent = Sent(c, ErrorPayload)
        /\ pc[c] = "recv"
        /\ rooms # [r \in {} |-> EmptyDict]

\* C9 as claimed: in the no-room state a message that is not a join gets
\* an error response and does not close the connection.
C9_ErrorInNoRoom ==
    [][\A c \in Conns :
         (Received(c) /\ NoRoom(c) /\ ev'.msg.type # "join")
         => pc'[c] = "send_error"]_vars
\* C9 as amended: in the no-room state a message that is not a join is
\* ignored: nothing is sent or broadcast, the registry and the handler's
\* binding are unchanged, and the handler goes on receiving.
C9_IgnoredInNoRoom ==
    [][\A c \in Conns :
         (Received(c) /\ NoRoom(c) /\ ev'.msg.type # "join")
         => /\ pc'[c] = "recv"
            /\ alive'[c]
            /\ ev'.sent = {}
            /\ out' = out
            /\ bc' = bc
            /\ rooms' = rooms
            /\ room_id'[c] = room_id[c] /\ player_id'[c] = player_id[c]]_vars
C9_Witness ==
    \E c \in Conns :
        /\ ev.op = "recv" /\ ev.conn = c
        /\ ev.msg.type = "update"
        /\ NoRoom(c)
        /\ pc[c] = "recv"
        /\ rooms # [r \in {} |-> EmptyDict]

\* C10: the records that hold one connection lie in at most one room.
C10_SingleRoom == \A c \in Conns : Cardinality(RoomsOf(rooms, c)) <= 1

\* handler c's broadcast reached asyncio.wait in the step just taken
Called(c) == pc'[c] = "bcast" /\ (pc[c] # "bcast" \/ bc'[c].kind # bc[c].kind)
\* the send tasks of c's broadcast whose state changed in the step just taken
Completed(c) ==
    IF pc[c] = "bcast" /\ pc'[c] = "bcast" /\ DOMAIN bc'[c].tasks = DOMAIN bc[c].tasks
    THEN {q \in DOMAIN bc[c].tasks : bc'[c].tasks[q] # bc[c].tasks[q]}
    ELSE {}

\* C11: with several broadcasts to one room in flight, each broadcast has
\* one send task for every member of the room at the time of the call other
\* than the skipped one, each task delivers its payload to its member's
\* socket at most once, and when the broadcast returns every task whose
\* socket is still connected has delivered: a member that stays connected
\* receives each payload exactly once, whatever happens to the others.
C11_EachPayloadOnce ==
    [][/\ \A c \in Conns : Called(c) =>
            \A q \in DOMAIN RoomGet(rooms', bc'[c].room) :
                q # bc'[c].skip =>
                    /\ q \in DOMAIN bc'[c].tasks
                    /\ bc'[c].tasks[q] = [ws |-> rooms'[bc'[c].room][q].websocket,
                                          st |-> "pending"]
       /\ \A c \in Conns : \A q \in Completed(c) :
            /\ bc[c].tasks[q].st = "pending"
            /\ bc'[c].tasks[q].ws = bc[c].tasks[q].ws
            /\ bc'[c].payload = bc[c].payload
            /\ bc'[c].tasks[q].st = "ok"
                 => ev'.sent = Sent(bc[c].tasks[q].ws, bc[c].payload)
       /\ ev'.op = "deliver" =>
            /\ Cardinality({cq \in Conns \X RoomPids : cq[2] \in Completed(cq[1])}) = 1
            /\ \E c \in Conns : \E q \in Completed(c) : bc'[c].tasks[q].st = "ok"
       /\ \A c \in Conns : Returned(c) =>
            \A q \in DOMAIN bc[c].tasks :
                bc[c].tasks[q].st = "ok" \/ ~alive[bc[c].tasks[q].ws]
      ]_vars
\* two updates are in flight in room "A", both have reached the third
\* player, and the delivery of one of them to the other sender has failed
C11_Witness ==
    /\ pc["c1"] = "bcast" /\ bc["c1"].kind = "update"
    /\ pc["c2"] = "bcast" /\ bc["c2"].kind = "update"
    /\ "p3" \in DOMAIN bc["c1"].tasks /\ bc["c1"].tasks["p3"].st = "ok"
    /\ "p3" \in DOMAIN bc["c2"].tasks /\ bc["c2"].tasks["p3"].st = "ok"
    /\ "p2" \in DOMAIN bc["c1"].tasks /\ bc["c1"].tasks["p2"].st = "fail"
    /\ alive["c3"]

\* handler c received a well-formed update while bound to a room and a player
Updated(c) ==
    /\ Received(c) /\ ev'.msg.type = "update" /\ Joined(c) /\ ~Malformed(ev'.msg)
\* the coordinates an update message carries, as lines 143-144 read them
UpdateX(m) == float(GetCoord(m, "x", UpdateDefaultCoord)).v
UpdateY(m) == float(GetCoord(m, "y", UpdateDefaultCoord)).v

\* C12: an update by the connection bound to player P of room R writes the
\* coordinates of the message into x and y of P's record and changes nothing
\* else in the registry; and the coordinates of a record that stays in the
\* registry change only in an update by a connection bound to that player
\* or in a join under that player's id, so that with distinct player ids
\* each record holds the coordinates of its own player's last update.
C12_UpdateIsolation ==
    [][/\ \A c \in Conns : Updated(c) =>
            /\ DOMAIN rooms' = DOMAIN rooms
            /\ \A r \in DOMAIN rooms :
                  /\ DOMAIN rooms'[r] = DOMAIN rooms[r]
                  /\ \A q \in DOMAIN rooms[r] :
                        rooms'[r][q] =
                            IF r = room_id[c] /\ q = player_id[c]
                            THEN [rooms[r][q] EXCEPT !.x = UpdateX(ev'.msg),
                                                     !.y = UpdateY(ev'.msg)]
                            ELSE rooms[r][q]
       /\ \A r \in DOMAIN rooms \cap DOMAIN rooms' :
            \A q \in DOMAIN rooms[r] \cap DOMAIN rooms'[r] :
                (rooms'[r][q].x # rooms[r][q].x \/ rooms'[r][q].y # rooms[r][q].y) =>
                    /\ ev'.op = "recv"
                    /\ \/ /\ Updated(ev'.conn)
                          /\ room_id[ev'.conn] = r /\ player_id[ev'.conn] = q
                       \/ /\ ev'.msg.type = "join"
                          /\ ev'.msg.room = r /\ ev'.msg.player_id = q
      ]_vars
\* the updates of c1 and c2 are both in flight, and the three records of
\* room "A" hold c1's update, c2's update and c3's join coordinates
C12_Witness ==
    /\ pc["c1"] = "bcast" /\ bc["c1"].kind = "update"
    /\ pc["c2"] = "bcast" /\ bc["c2"].kind = "update"
    /\ "A" \in DOMAIN rooms /\ DOMAIN rooms["A"] = {"p1", "p2", "p3"}
    /\ rooms["A"]["p1"].x = 8 /\ rooms["A"]["p1"].y = UpdateDefaultCoord
    /\ rooms["A"]["p1"].websocket = "c1"
    /\ rooms["A"]["p2"].x = 7 /\ rooms["A"]["p2"].y = 7
    /\ rooms["A"]["p2"].websocket = "c2"
    /\ rooms["A"]["p3"].x = JoinDefaultCoord /\ rooms["A"]["p3"].y = 7

\* C13: while a send to a stalled client is pending no handler holds a lock
\* across the wait, and the handler of every other connection that is
\* broadcasting an update gets back to its receive loop, where the next
\* update of its player is read and applied.
C13_NoBackpressure ==
    \A c \in Conns \ {Stalled} :
        (pc[c] = "bcast" /\ bc[c].kind = "update") ~> (pc[c] # "bcast")

\* handler c received a join that names a room and a player and whose
\* coordinates are numbers
JoinedNow(c) ==
    /\ Received(c) /\ ev'.msg.type = "join" /\ Named(ev'.msg) /\ ~Malformed(ev'.msg)
\* the record lines 115-123 build from join message m on connection c
RecordOf(m, c) ==
    Player(m.player_id, Get(m, "name", DefaultName), Get(m, "shape", DefaultShape),
           Get(m, "color", DefaultColor),
           float(GetCoord(m, "x", JoinDefaultCoord)).v,
           float(GetCoord(m, "y", JoinDefaultCoord)).v, c)

\* C14: a join for (room, player) leaves in that room exactly the record
\* built from this join's attributes and connection under that player id,
\* and every other record as it was; when the player id was already a
\* member, the member set of the room is the same as before the join.
C14_RejoinReplaces ==
    [][\A c \in Conns : JoinedNow(c) =>
        LET m == ev'.msg
            old == RoomGet(rooms, m.room) IN
        /\ DOMAIN rooms' = DOMAIN rooms \cup {m.room}
        /\ DOMAIN rooms'[m.room] = DOMAIN old \cup {m.player_id}
        /\ rooms'[m.room][m.player_id] = RecordOf(m, c)
        /\ \A q \in DOMAIN old \ {m.player_id} : rooms'[m.room][q] = old[q]
        /\ \A r \in DOMAIN rooms \ {m.room} : rooms'[r] = rooms[r]
        /\ m.player_id \in DOMAIN old =>
              Cardinality(DOMAIN rooms'[m.room]) = Cardinality(DOMAIN old)
      ]_vars
\* c1 has joined room "A" as "p1" with one set of attributes and is still
\* sending its state reply; c2 has just joined as "p1" with another name
\* and other coordinates, and the room holds c2's record alone
C14_Witness ==
    /\ pc["c1"] = "send_state"
    /\ msg["c1"] = Msg("join", "A", "p1", None, JStr("7"), JAbsent)
    /\ ev.op = "recv" /\ ev.conn = "c2"
    /\ ev.msg = Msg("join", "A", "p1", "ann", JStr("8"), JStr("8"))
    /\ "A" \in DOMAIN rooms /\ DOMAIN rooms["A"] = {"p1"}
    /\ rooms["A"]["p1"] = Player("p1", "ann", DefaultShape, DefaultColor, 8, 8, "c2")

\* the room the step just taken works on: the room named by a join, the
\* room of the broadcast that returned, or the room the handler is bound to
ActsOn ==
    IF ev'.op = "recv" /\ ev'.msg.type = "join" THEN ev'.msg.room
    ELSE IF ev'.op = "broadcast_done" THEN bc[ev'.conn].room
    ELSE IF ev'.conn \in Conns THEN room_id[ev'.conn]
    ELSE None
\* the entry of room r is not the same after the step just taken
Changed(r) ==
    \/ (r \in DOMAIN rooms) # (r \in DOMAIN rooms')
    \/ r \in DOMAIN rooms \cap DOMAIN rooms' /\ rooms'[r] # rooms[r]

\* C15: a join, update, close or pruning step changes the entry of no room
\* other than the one it works on (no record or member set of another room
\* changes, no other room is created or deleted), and a state snapshot
\* prepared for a room lists the records of that room and nothing else.
C15_RoomIsolation ==
    [][/\ \A r \in DOMAIN rooms \cup DOMAIN rooms' : Changed(r) => r = ActsOn
       /\ \A c \in Conns : (pc'[c] = "send_state" /\ pc[c] # "send_state") =>
            /\ out'[c].type = "state"
            /\ out'[c].room = ActsOn
            /\ out'[c] = StatePayload([r \in {ActsOn} |-> rooms'[ActsOn]], ActsOn,
                                      ev'.msg.player_id)
      ]_vars
\* a broadcast to room "A" has just pruned a record of "A" while room "B"
\* has members
C15_Witness ==
    /\ ev.op = "broadcast_done"
    /\ ev.muts = {[room |-> "A", held |-> FALSE]}
    /\ "B" \in DOMAIN rooms /\ DOMAIN rooms["B"] # {}

\* handler c received a well-formed update while bound to a room and to a
\* player id that has no record in that room
UpdatedUnknown(c) ==
    /\ Updated(c)
    /\ player_id[c] \notin DOMAIN RoomGet(rooms, room_id[c])

\* C16: an update for a player that has no record in the connection's room
\* leaves the registry as it was and starts no delivery of an update
\* notification to any member of the room.
C16_UnknownUpdateSilent ==
    [][\A c \in Conns : UpdatedUnknown(c) =>
        /\ rooms' = rooms
        /\ pc'[c] = "recv"
        /\ bc'[c] = NoBc
      ]_vars

\* C17: a successful join prepares for the joiner one state message that
\* lists exactly the members of the room right after the insertion, the
\* joiner among them with the attributes of the join, and names the joiner
\* in `you`; the broadcast announcing the join starts only in the step that
\* sends this message, and none of its send tasks is addressed to the
\* joiner's connection.
C17_JoinReply ==
    [][\A c \in Conns :
        /\ JoinedNow(c) =>
              LET m == ev'.msg IN
              /\ pc'[c] = "send_state"
              /\ bc'[c] = NoBc
              /\ out'[c].type = "state"
              /\ out'[c].you = m.player_id
              /\ DOMAIN out'[c].players = DOMAIN rooms'[m.room]
              /\ \A q \in DOMAIN rooms'[m.room] :
                    LET r == rooms'[m.room][q] IN
                    out'[c].players[q] =
                        PlayerView(q, r.name, r.shape, r.color, JNum(r.x), JNum(r.y))
              /\ rooms'[m.room][m.player_id] = RecordOf(m, c)
        /\ (pc'[c] = "bcast" /\ bc'[c].kind = "join" /\ pc[c] # "bcast") =>
              /\ pc[c] = "send_state"
              /\ ev'.sent = Sent(c, out[c])
              /\ \A q \in DOMAIN bc'[c].tasks : bc'[c].tasks[q].ws # c
      ]_vars

\* C18: a broadcast returns only when none of the send tasks selected at
\* call time is pending; while it waits, its task list stays as selected
\* and a task that has completed keeps its outcome, whatever the outcome of
\* the others; and when every send completes the broadcast returns: no
\* handler stays in a broadcast for ever.
C18_NoFailFast ==
    /\ [][\A c \in Conns :
            /\ Returned(c) =>
                  \A q \in DOMAIN bc[c].tasks : bc[c].tasks[q].st # "pending"
            /\ (pc[c] = "bcast" /\ pc'[c] = "bcast") =>
                  /\ DOMAIN bc'[c].tasks = DOMAIN bc[c].tasks
                  /\ \A q \in DOMAIN bc[c].tasks :
                        /\ bc'[c].tasks[q].ws = bc[c].tasks[q].ws
                        /\ bc[c].tasks[q].st # "pending" =>
                              bc'[c].tasks[q].st = bc[c].tasks[q].st
         ]_vars
    /\ \A c \in Conns : []<>(pc[c] # "bcast")
\* the broadcast announcing c3's join has failed to reach "p2" and its send
\* to "p1" is still pending
C18_Witness ==
    /\ pc["c3"] = "bcast" /\ bc["c3"].kind = "join"
    /\ DOMAIN bc["c3"].tasks = {"p1", "p2"}
    /\ bc["c3"].tasks["p2"].st = "fail"
    /\ bc["c3"].tasks["p1"].st = "pending"

\* C19: a handler that is bound to a room and a player stays bound in
\* every later step, whatever it receives, and an update it receives while
\* the registry holds a record of its connection is applied to such a
\* record.
C19_JoinedUntilClose ==
    [][\A c \in Conns : Joined(c) =>
        /\ Truthy(room_id'[c]) /\ Truthy(player_id'[c])
        /\ (Updated(c) /\ RecordsOf(rooms, c) # {}) =>
              /\ <<room_id[c], player_id[c]>> \in RecordsOf(rooms, c)
              /\ rooms'[room_id[c]][player_id[c]].x = UpdateX(ev'.msg)
              /\ rooms'[room_id[c]][player_id[c]].y = UpdateY(ev'.msg)
      ]_vars

\* handler d left its receive loop and ran its finally block in the step
\* just taken
Closed(d) ==
    /\ pc[d] \in {"recv", "send_error", "send_state"}
    /\ pc'[d] = "done" \/ (pc'[d] = "bcast" /\ bc'[d].kind = "leave")

\* C20: when the handler of one connection closes, every record that holds
\* the websocket of another connection that is still connected stays in the
\* registry as it was, also when the closing connection had joined under
\* the same room and player id before.
C20_CloseKeepsOthers ==
    [][\A d \in Conns : Closed(d) =>
        \A c \in Conns \ {d} : alive[c] =>
            \A rq \in RecordsOf(rooms, c) :
                /\ rq \in RecordsOf(rooms', c)
                /\ rooms'[rq[1]][rq[2]] = rooms[rq[1]][rq[2]]
      ]_vars
====
